---- MODULE Spec2Model ----
(***************************************************************************)
(* Model of the daily-sync-monitor standup pipeline.                       *)
(*                                                                         *)
(*   - StandupEvaluator.evaluate and MeetingNormalizer.build_snapshot are  *)
(*     operators, computed the way the Python code computes them.          *)
(*   - run_daily_standup_check is a process per SQLAlchemy session: load   *)
(*     the active projects and build the resolvers, one step per project   *)
(*     (provider calls, evaluation, lookup of the existing log, staging of *)
(*     the insert or update in the session), then flush + commit.          *)
(*   - compute_weekly_summary reads the committed log table.               *)
(*                                                                         *)
(* Durations are kept in tenths of a minute, so 3.0 minutes is 30.         *)
(***************************************************************************)
EXTENDS Integers, Sequences, FiniteSets, TLC

(***************************************************************************)
(* JSON-like values: None, an opaque scalar, or a dict (a function from    *)
(* key strings to values).  Every value carries its kind so that values of *)
(* different Python types can be compared.                                 *)
(***************************************************************************)
None == [kind |-> "none"]

Scalar == [kind |-> "scalar"]

Dict(f) == [kind |-> "dict", d |-> f]

EmptyDict == Dict(<<>>)

IsDict(v) == v.kind = "dict"

\* Python truthiness of an optional dict: None and {} are falsy.
Truthy(v) == IsDict(v) /\ DOMAIN v.d # {}

\* json.dumps: the text of the value; kept apart from the value itself.
JsonDumps(v) == [kind |-> "json", text |-> v]

(***************************************************************************)
(* Statuses and evaluation thresholds.                                     *)
(***************************************************************************)
HAPPENED == "HAPPENED"

MISSED == "MISSED"

CANCELLED == "CANCELLED"

NO_DATA == "NO_DATA"

ERROR == "ERROR"

DailyStandupStatus == {HAPPENED, MISSED, CANCELLED, NO_DATA, ERROR}

MinNonOrganizers == 2

MaxShortDurationMinutes == 3

\* Durations are held in tenths of a minute.
TenthsPerMinute == 10

(***************************************************************************)
(* MeetingNormalizer.build_snapshot                                        *)
(***************************************************************************)
MeetingOccurrence(cancelled, raw) ==
    [kind |-> "occurrence", is_cancelled |-> cancelled, raw |-> raw]

AttendanceSummary(count, duration, hasData, raw) ==
    [kind |-> "attendance", non_organizer_count |-> count,
     duration_minutes |-> duration, has_data |-> hasData, raw |-> raw]

MeetingSnapshot(cancelled, count, duration, raw) ==
    [kind |-> "snapshot", cancelled |-> cancelled, non_organizer_count |-> count,
     duration_minutes |-> duration, raw |-> raw]

\* d[k] = v on a Python dict held as a function.
DictSet(f, k, v) == (k :> v) @@ f

\* The attendance payload taken only from an attendance that has data.
BuildSnapshotRawWithDataOnly(occurrence, attendance) ==
    LET cancelled == IF occurrence # None THEN occurrence.is_cancelled ELSE FALSE
        raw1 == IF occurrence # None /\ occurrence.raw # None
                THEN DictSet(<<>>, "occurrence", occurrence.raw) ELSE <<>>
        useAtt == attendance # None /\ attendance.has_data
        raw3 == IF useAtt /\ attendance.raw # None
                THEN DictSet(raw1, "attendance", attendance.raw) ELSE raw1
    IN  MeetingSnapshot(cancelled,
                        IF useAtt THEN attendance.non_organizer_count ELSE 0,
                        IF useAtt THEN attendance.duration_minutes ELSE 0,
                        IF DOMAIN raw3 = {} THEN None ELSE Dict(raw3))

\* The attendance values taken whether or not the attendance has data.
BuildSnapshotIgnoringHasData(occurrence, attendance) ==
    LET cancelled == IF occurrence # None THEN occurrence.is_cancelled ELSE FALSE
        raw1 == IF occurrence # None /\ occurrence.raw # None
                THEN DictSet(<<>>, "occurrence", occurrence.raw) ELSE <<>>
        raw2 == IF occurrence # None /\ attendance # None /\ attendance.raw # None
                THEN DictSet(raw1, "attendance", attendance.raw) ELSE raw1
        raw3 == IF attendance # None /\ attendance.has_data /\ attendance.raw # None
                THEN DictSet(raw2, "attendance", attendance.raw) ELSE raw2
    IN  MeetingSnapshot(cancelled,
                        IF attendance # None THEN attendance.non_organizer_count ELSE 0,
                        IF attendance # None THEN attendance.duration_minutes ELSE 0,
                        IF DOMAIN raw3 = {} THEN None ELSE Dict(raw3))

build_snapshot(occurrence, attendance) ==
    LET cancelled == IF occurrence # None THEN occurrence.is_cancelled ELSE FALSE
        raw0 == <<>>
        raw1 == IF occurrence # None /\ occurrence.raw # None
                THEN DictSet(raw0, "occurrence", occurrence.raw) ELSE raw0
        raw2 == IF occurrence # None /\ attendance # None /\ attendance.raw # None
                THEN DictSet(raw1, "attendance", attendance.raw) ELSE raw1
        useAtt == attendance # None /\ attendance.has_data
        non_org_count == IF useAtt THEN attendance.non_organizer_count ELSE 0
        duration_minutes == IF useAtt THEN attendance.duration_minutes ELSE 0
        raw3 == IF useAtt /\ attendance.raw # None
                THEN DictSet(raw2, "attendance", attendance.raw) ELSE raw2
        raw_output == IF DOMAIN raw3 = {} THEN None ELSE Dict(raw3)
    IN  MeetingSnapshot(cancelled, non_org_count, duration_minutes, raw_output)

(***************************************************************************)
(* StandupEvaluator.evaluate                                               *)
(***************************************************************************)
\* A scan that also descends into the values of the direct values.
ErrorPresentDeep(snapshot) ==
    LET raw == IF Truthy(snapshot.raw) THEN snapshot.raw ELSE EmptyDict
    IN  \/ "error" \in DOMAIN raw.d
        \/ \E k \in DOMAIN raw.d :
              /\ IsDict(raw.d[k])
              /\ \/ "error" \in DOMAIN raw.d[k].d
                 \/ \E j \in DOMAIN raw.d[k].d :
                       IsDict(raw.d[k].d[j]) /\ "error" \in DOMAIN raw.d[k].d[j].d

\* The scan without its second step: only the top level of raw is searched.
ErrorPresentNoNested(snapshot) ==
    LET raw == IF Truthy(snapshot.raw) THEN snapshot.raw ELSE EmptyDict
    IN  "error" \in DOMAIN raw.d

\* The error scan of lines 36-46: "error" at the top level of raw, else in a
\* direct value of raw that is itself a dict.
error_present(snapshot) ==
    LET raw == IF Truthy(snapshot.raw) THEN snapshot.raw ELSE EmptyDict
    IN  IF "error" \in DOMAIN raw.d
        THEN TRUE
        ELSE \E k \in DOMAIN raw.d : IsDict(raw.d[k]) /\ "error" \in DOMAIN raw.d[k].d

EvaluateCancelledFirst(snapshot) ==
    IF snapshot = None THEN NO_DATA
    ELSE IF snapshot.cancelled THEN CANCELLED
    ELSE IF error_present(snapshot) THEN ERROR
    ELSE IF snapshot.non_organizer_count < MinNonOrganizers THEN MISSED
    ELSE IF snapshot.duration_minutes <= MaxShortDurationMinutes * TenthsPerMinute THEN MISSED
    ELSE HAPPENED

evaluate(snapshot) ==
    IF snapshot = None THEN NO_DATA
    ELSE IF error_present(snapshot) THEN ERROR
    ELSE IF snapshot.cancelled THEN CANCELLED
    ELSE IF snapshot.non_organizer_count < MinNonOrganizers THEN MISSED
    ELSE IF snapshot.duration_minutes <= MaxShortDurationMinutes * TenthsPerMinute THEN MISSED
    ELSE HAPPENED

(***************************************************************************)
(* Graph resolvers.  A Graph call (GraphClient.get_json) ends in one of    *)
(* three ways: a 2xx payload, a GraphClientError (non-2xx answer or token  *)
(* failure), or an exception of the HTTP transport (timeout, connection    *)
(* error), which GraphClient neither catches nor wraps.                    *)
(***************************************************************************)
GraphOutcomes == {"ok", "GraphClientError", "TransportError"}

ErrorRaw == Dict("error" :> Scalar)

EventRaw == Dict(("id" :> Scalar) @@ ("isCancelled" :> Scalar))

ReportsRaw == Dict("value" :> Scalar)

\* fetch.outcome is "ok" or "GraphClientError"; fetch.meeting is None when no
\* event of the day matches the meeting id, else [isCancelled |-> ...].
resolve_meeting_occurrence(fetch) ==
    IF fetch.outcome = "GraphClientError"
    THEN MeetingOccurrence(FALSE, ErrorRaw)
    ELSE IF fetch.meeting = None
    THEN MeetingOccurrence(FALSE, None)
    ELSE MeetingOccurrence(fetch.meeting.isCancelled, EventRaw)

\* fetch.report is None when the payload has no attendance report, else the
\* metrics _compute_metrics derives from its records.
resolve_attendance(fetch) ==
    IF fetch.outcome = "GraphClientError"
    THEN AttendanceSummary(0, 0, FALSE, ErrorRaw)
    ELSE IF fetch.report = None
    THEN AttendanceSummary(0, 0, FALSE, ReportsRaw)
    ELSE AttendanceSummary(fetch.report.count, fetch.report.duration, TRUE, ReportsRaw)

(***************************************************************************)
(* Values run_daily_standup_check derives from a snapshot (lines 113-123)  *)
(* and writes to the log object (lines 144-148).                           *)
(***************************************************************************)
Cols == {"scheduled_time", "status", "attendance_count", "duration_minutes", "raw_metadata"}

LogValuesPlaceholder(snapshot, standup_time) ==
    [scheduled_time   |-> standup_time,
     status           |-> NO_DATA,
     attendance_count |-> 0,
     duration_minutes |-> 0,
     raw_metadata     |-> None]

LogValues(snapshot, standup_time) ==
    [scheduled_time   |-> standup_time,
     status           |-> evaluate(snapshot),
     attendance_count |-> IF snapshot # None THEN snapshot.non_organizer_count ELSE 0,
     duration_minutes |-> IF snapshot # None THEN snapshot.duration_minutes ELSE 0,
     raw_metadata     |-> IF snapshot # None /\ Truthy(snapshot.raw)
                          THEN JsonDumps(snapshot.raw) ELSE None]

(***************************************************************************)
(* Bounds of the model.                                                    *)
(***************************************************************************)
NumProjects == 2

NumDates == 1

NumSessions == 2

MaxRuns == 2

MaxUpdates == 1

MaxKept == 1

Projects == 1..NumProjects

Dates == 1..NumDates

Sessions == 1..NumSessions

Times == {"10:30", "11:00"}

(***************************************************************************)
(* State.                                                                  *)
(*   projects  the project registry (read-only to the daily check)        *)
(*   db        the committed rows of daily_standup_logs                    *)
(*   nextId    the next primary key of daily_standup_logs                  *)
(*   sess      per AsyncSession: the identity map (objs: for every loaded  *)
(*             log its attribute values as loaded, base, and as they are   *)
(*             now, cur), the pending new logs (new), the loaded projects' *)
(*             standup_time (projTimes) and whether the session is usable. *)
(*   run       per session, the position of run_daily_standup_check, with  *)
(*             what the call has observed: seq (no other call was in       *)
(*             flight during it), synced (its session agreed with the      *)
(*             database when it started), credsMissing, activeSet, times   *)
(*             (the registry as it was when the call started), and per     *)
(*             entry the snapshot that was evaluated                       *)
(*   out       how the call that ended last ended: the summary returned or *)
(*             the exception raised; cleared when the next call starts     *)
(*   graph_client_instance   the module-level singleton of graph_client   *)
(*   nRuns, nUpdates, nKept  counters that bound the model: calls started, *)
(*             project changes, sessions kept open after a call           *)
(*   evalSnapshot, evalResult   argument and result of a direct call of    *)
(*             StandupEvaluator.evaluate                                   *)
(*   aggResult the result of a call of compute_weekly_summary              *)
(*   projResult   the result of a call of compute_project_summary          *)
(*   http      the response of a route that takes a date range             *)
(*   emailCalls, emailResult the summaries handed to                       *)
(*                           send_weekly_summary_email and its last result *)
(*   token_state, now        GraphClient._token_state and the clock        *)
(*   tokenRequests           number of requests sent to the token endpoint *)
(*   tokenResult             outcome of the last get_access_token call     *)
(*   snapInput, snapResult   arguments and result of a direct call of      *)
(*             MeetingNormalizer.build_snapshot                            *)
(***************************************************************************)
VARIABLES projects, db, nextId, sess, run, out, graph_client_instance,
          nRuns, nUpdates, nKept, evalSnapshot, evalResult, aggResult,
          projResult, http, snapInput, snapResult,
          emailCalls, emailResult, token_state, now, tokenRequests, tokenResult

vars == <<projects, db, nextId, sess, run, out, graph_client_instance,
          nRuns, nUpdates, nKept, evalSnapshot, evalResult, aggResult,
          projResult, http, snapInput, snapResult,
          emailCalls, emailResult, token_state, now, tokenRequests, tokenResult>>

EmptySession == [valid |-> TRUE, objs |-> <<>>, new |-> <<>>, projTimes |-> <<>>]

IdleRun ==
    [pc |-> "idle", date |-> 0, active |-> <<>>, idx |-> 0, usable |-> FALSE,
     entries |-> <<>>, seq |-> FALSE, synced |-> FALSE, credsMissing |-> FALSE,
     activeSet |-> {}, times |-> <<>>]

NoSummary ==
    [standup_date |-> 0, total_projects_evaluated |-> 0, logs_created |-> 0,
     entries |-> <<>>]

NoOut ==
    [state |-> "none", cause |-> "", session |-> 0, summary |-> NoSummary,
     seq |-> FALSE, synced |-> FALSE, credsMissing |-> FALSE, usable |-> FALSE,
     activeSet |-> {}, inserted |-> 0, done |-> 0]

RowVals(r) == [c \in Cols |-> r[c]]

MkRow(id, project_id, standup_date, vals) ==
    [id |-> id, project_id |-> project_id, standup_date |-> standup_date,
     scheduled_time |-> vals.scheduled_time, status |-> vals.status,
     attendance_count |-> vals.attendance_count,
     duration_minutes |-> vals.duration_minutes,
     raw_metadata |-> vals.raw_metadata]

\* The session's view agrees with the database and holds nothing unflushed.
InSync(s) ==
    /\ sess[s].valid
    /\ sess[s].new = <<>>
    /\ \A id \in DOMAIN sess[s].objs :
          /\ sess[s].objs[id].cur = sess[s].objs[id].base
          /\ \E r \in db : r.id = id /\ RowVals(r) = sess[s].objs[id].base
    /\ \A p \in DOMAIN sess[s].projTimes :
          sess[s].projTimes[p] = projects[p].standup_time

\* No call of the aggregation or normalisation functions has been made.
NoProj == [error |-> "none", project_id |-> 0, start_date |-> 0, end_date |-> 0]

NoHttp == [route |-> "none", status |-> 0, start_date |-> 0, end_date |-> 0]

NoSnapInput == [occurrence |-> [kind |-> "none"], attendance |-> [kind |-> "none"]]

NoSnap == [kind |-> "unset"]

NoToken == [kind |-> "none"]

NoTokenResult == [kind |-> "unset", call |-> 0, response |-> "none"]

\* No email has been handed to the notifier; the Graph client is newly
\* constructed (_token_state = None) and has made no token request.
NoClientCall ==
    /\ emailCalls = <<>>
    /\ emailResult = "none"
    /\ token_state = NoToken
    /\ now = 0
    /\ tokenRequests = 0
    /\ tokenResult = NoTokenResult

NoOtherCall ==
    /\ projResult = NoProj
    /\ http = NoHttp
    /\ snapInput = NoSnapInput
    /\ snapResult = NoSnap
    /\ NoClientCall

MainInit ==
    /\ projects = [p \in Projects |-> [is_active |-> TRUE, standup_time |-> "10:30"]]
    /\ db = {}
    /\ nextId = 1
    /\ sess = [s \in Sessions |-> EmptySession]
    /\ run = [s \in Sessions |-> IdleRun]
    /\ out = NoOut
    /\ graph_client_instance = FALSE
    /\ nRuns = 0
    /\ nUpdates = 0
    /\ nKept = 0

(***************************************************************************)
(* Settings and resolver construction (daily_check.py lines 65-88).        *)
(* The Settings class declares GRAPH_TENANT_ID, GRAPH_CLIENT_ID and        *)
(* GRAPH_CLIENT_SECRET; GRAPH_ORGANIZER_USER_ID is assigned at module      *)
(* level, after the class, so a Settings object has no such attribute      *)
(* ("undeclared").  Settings objects that do carry the attribute, unset or *)
(* set, are the ones the tests substitute for get_settings.                *)
(***************************************************************************)
SettingsInputs ==
    {cfg \in [tenant : BOOLEAN, client : BOOLEAN, secret : BOOLEAN,
              organizer : {"undeclared", "unset", "set"}] :
        Cardinality({k \in {"tenant", "client", "secret"} : ~cfg[k]}) <= 1}

AllCredentials(cfg) ==
    cfg.tenant /\ cfg.client /\ cfg.secret /\ cfg.organizer = "set"

\* creds: graph_client's own settings carry tenant, client id and secret.
get_graph_client(instance, creds) ==
    IF instance THEN "ok"
    ELSE IF creds THEN "ok" ELSE "GraphClientError"

\* "usable": both resolvers built; "fallback": both None; "AttributeError":
\* the attribute lookup on the settings object raises.
BuildResolvers(cfg, instance, creds) ==
    IF cfg.tenant /\ cfg.client /\ cfg.secret
    THEN IF cfg.organizer = "undeclared" THEN "AttributeError"
         ELSE IF cfg.organizer = "set"
         THEN IF get_graph_client(instance, creds) = "ok" THEN "usable" ELSE "fallback"
         ELSE "fallback"
    ELSE "fallback"

(***************************************************************************)
(* Queries.                                                                *)
(***************************************************************************)
AllProjects == [i \in 1..NumProjects |-> i]

ActiveProjectsIgnoringFlag == AllProjects

\* select(Project).where(Project.is_active.is_(True)), in id order.
ActiveProjects == SelectSeq(AllProjects, LAMBDA p : projects[p].is_active)

SeqRange(q) == {q[i] : i \in 1..Len(q)}

ExistingLogsNone(p, d) == {}

\* select(DailyStandupLog).where(project_id == p, standup_date == d)
ExistingLogs(p, d) == {r \in db : r.project_id = p /\ r.standup_date = d}

(***************************************************************************)
(* How a call ends.  The caller either closes the session (get_db does so  *)
(* when the request is over) or keeps it for a further call.               *)
(***************************************************************************)
AfterCall(sr, keep) == IF keep THEN sr ELSE EmptySession

MayKeep(keep, started) == keep => (started < MaxRuns /\ nKept < MaxKept)

Kept(keep) == IF keep THEN nKept + 1 ELSE nKept

Raised(s, r, cause) ==
    [state |-> "raised", cause |-> cause, session |-> s, summary |-> NoSummary,
     seq |-> r.seq, synced |-> r.synced, credsMissing |-> r.credsMissing,
     usable |-> r.usable, activeSet |-> r.activeSet, inserted |-> 0,
     done |-> Len(r.entries)]

OthersOverlapped(s) ==
    [t \in Sessions |->
       IF t # s /\ run[t].pc # "idle" THEN [run[t] EXCEPT !.seq = FALSE] ELSE run[t]]

(***************************************************************************)
(* run_daily_standup_check, lines 60-88: load the active projects, read    *)
(* the settings, build the resolvers.                                      *)
(* Unused sessions are interchangeable: a call takes the lowest-numbered   *)
(* one.  keep tells whether the caller keeps the session open when the     *)
(* call ends at once.                                                      *)
(***************************************************************************)
StartRun(s, d, cfg, creds, keep) ==
    /\ run[s].pc = "idle"
    /\ \A t \in Sessions : t < s => ~(run[t].pc = "idle" /\ sess[t] = EmptySession)
    /\ nRuns < MaxRuns
    /\ nRuns' = nRuns + 1
    /\ LET active == ActiveProjects
           built == BuildResolvers(cfg, graph_client_instance, creds)
           r == [pc |-> "loop", date |-> d, active |-> active, idx |-> 1,
                 usable |-> built = "usable", entries |-> <<>>,
                 seq |-> \A t \in Sessions \ {s} : run[t].pc = "idle",
                 synced |-> InSync(s),
                 credsMissing |-> ~AllCredentials(cfg),
                 activeSet |-> {p \in Projects : projects[p].is_active},
                 times |-> [p \in Projects |-> projects[p].standup_time]]
           loaded == [p \in DOMAIN sess[s].projTimes \cup SeqRange(active) |->
                        IF p \in DOMAIN sess[s].projTimes
                        THEN sess[s].projTimes[p]
                        ELSE projects[p].standup_time]
       IN  IF ~sess[s].valid
           THEN /\ MayKeep(keep, nRuns + 1)
                /\ nKept' = Kept(keep)
                /\ out' = Raised(s, r, "PendingRollbackError")
                /\ run' = OthersOverlapped(s)
                /\ sess' = [sess EXCEPT ![s] = AfterCall(@, keep)]
                /\ UNCHANGED graph_client_instance
           ELSE IF built = "AttributeError"
           THEN /\ MayKeep(keep, nRuns + 1)
                /\ nKept' = Kept(keep)
                /\ out' = Raised(s, r, "AttributeError")
                /\ run' = OthersOverlapped(s)
                /\ sess' = [sess EXCEPT ![s] =
                              AfterCall([@ EXCEPT !.projTimes = loaded], keep)]
                /\ UNCHANGED graph_client_instance
           ELSE /\ keep
                /\ run' = [OthersOverlapped(s) EXCEPT ![s] = r]
                /\ sess' = [sess EXCEPT ![s].projTimes = loaded]
                /\ graph_client_instance' =
                      (graph_client_instance \/ (AllCredentials(cfg) /\ creds))
                /\ out' = NoOut
                /\ UNCHANGED nKept
    /\ UNCHANGED <<projects, db, nextId, nUpdates, evalSnapshot, evalResult, aggResult,
                   projResult, http, snapInput, snapResult,
                   emailCalls, emailResult, token_state, now, tokenRequests, tokenResult>>

(***************************************************************************)
(* Provider answers drawn for one project of a run.                        *)
(***************************************************************************)
EventFound(cancelled) == [isCancelled |-> cancelled]

Report(count, duration) == [count |-> count, duration |-> duration]

OccFetch(outcome, meeting) == [outcome |-> outcome, meeting |-> meeting]

AttFetch(outcome, report) == [outcome |-> outcome, report |-> report]

\* The answers of the two Graph calls made for a project, None when the
\* resolvers were not built and no call was made.
Fetched(fo, fa) == [kind |-> "fetched", occurrence |-> fo, attendance |-> fa]

RunCases ==
    { <<OccFetch("ok", EventFound(FALSE)), AttFetch("ok", Report(3, 100))>>,
      <<OccFetch("ok", EventFound(FALSE)), AttFetch("ok", None)>>,
      <<OccFetch("TransportError", None), AttFetch("ok", None)>> }

\* Every pair of answers: no matching event, an event (cancelled or not), a
\* non-2xx answer or a transport failure for the calendar; no report, a
\* report (enough or too few attendees), a non-2xx answer or a transport
\* failure for the attendance reports.
OccFetches ==
    { OccFetch("ok", None), OccFetch("ok", EventFound(FALSE)),
      OccFetch("ok", EventFound(TRUE)), OccFetch("GraphClientError", None),
      OccFetch("TransportError", None) }

AttFetches ==
    { AttFetch("ok", None), AttFetch("ok", Report(3, 100)), AttFetch("ok", Report(1, 100)),
      AttFetch("GraphClientError", None), AttFetch("TransportError", None) }

FetchCases == OccFetches \X AttFetches

(***************************************************************************)
(* run_daily_standup_check, lines 92-150: one iteration of the loop over   *)
(* the active projects.  The resolvers turn a GraphClientError into a      *)
(* result with an error marker, so the handler of line 108 is never        *)
(* entered; an exception of the transport passes through every handler.    *)
(***************************************************************************)
Step(s, fo, fa, keep) ==
    /\ run[s].pc = "loop"
    /\ run[s].idx <= Len(run[s].active)
    /\ LET r == run[s]
           p == r.active[r.idx]
           snapshot == IF r.usable
                       THEN build_snapshot(resolve_meeting_occurrence(fo),
                                           resolve_attendance(fa))
                       ELSE None
           vals == LogValues(snapshot, sess[s].projTimes[p])
           existing == ExistingLogs(p, r.date)
           fetched == IF r.usable THEN Fetched(fo, fa) ELSE None
       IN  IF r.usable /\ (fo.outcome = "TransportError" \/ fa.outcome = "TransportError")
           THEN /\ MayKeep(keep, nRuns)
                /\ nKept' = Kept(keep)
                /\ out' = Raised(s, r, "TransportError")
                /\ run' = [run EXCEPT ![s] = IdleRun]
                /\ sess' = [sess EXCEPT ![s] = AfterCall(@, keep)]
           ELSE IF Cardinality(existing) > 1
           THEN /\ MayKeep(keep, nRuns)
                /\ nKept' = Kept(keep)
                /\ out' = Raised(s, r, "MultipleResultsFound")
                /\ run' = [run EXCEPT ![s] = IdleRun]
                /\ sess' = [sess EXCEPT ![s] = AfterCall(@, keep)]
           ELSE IF existing = {}
           THEN /\ keep
                /\ sess' = [sess EXCEPT ![s].new =
                              Append(@, [project_id |-> p, standup_date |-> r.date,
                                         vals |-> vals])]
                /\ run' = [run EXCEPT ![s].idx = @ + 1,
                                      ![s].entries =
                                         Append(@, [project_id |-> p, id |-> 0,
                                                    k |-> Len(sess[s].new) + 1,
                                                    snapshot |-> snapshot,
                                                    fetched |-> fetched])]
                /\ UNCHANGED <<out, nKept>>
           ELSE LET row == CHOOSE x \in existing : TRUE
                    base == IF row.id \in DOMAIN sess[s].objs
                            THEN sess[s].objs[row.id].base
                            ELSE RowVals(row)
                IN  /\ keep
                    /\ sess' = [sess EXCEPT ![s].objs =
                                   (row.id :> [base |-> base, cur |-> vals]) @@ @]
                    /\ run' = [run EXCEPT ![s].idx = @ + 1,
                                          ![s].entries =
                                             Append(@, [project_id |-> p, id |-> row.id,
                                                        k |-> 0, snapshot |-> snapshot,
                                                        fetched |-> fetched])]
                    /\ UNCHANGED <<out, nKept>>
    /\ UNCHANGED <<projects, db, nextId, graph_client_instance, nRuns, nUpdates,
                   evalSnapshot, evalResult, aggResult,
                   projResult, http, snapInput, snapResult,
                   emailCalls, emailResult, token_state, now, tokenRequests, tokenResult>>

(***************************************************************************)
(* run_daily_standup_check, lines 152-165: flush, commit, build the        *)
(* summary.  The unit of work inserts every pending log of the session and *)
(* updates, for every loaded log, the columns whose value differs from the *)
(* value the session loaded.                                               *)
(***************************************************************************)
ChangedCols(o) == {c \in Cols : o.cur[c] # o.base[c]}

DailyStandupLogRead(id, project_id, standup_date, vals) ==
    [id |-> id, project_id |-> project_id, standup_date |-> standup_date,
     scheduled_time |-> vals.scheduled_time, status |-> vals.status,
     attendance_count |-> vals.attendance_count,
     duration_minutes |-> vals.duration_minutes]

DailyCheckSummary(standup_date, active, read_entries) ==
    [standup_date |-> standup_date,
     total_projects_evaluated |-> Len(active),
     logs_created |-> Len(read_entries),
     entries |-> read_entries]

Commit(s, keep) ==
    /\ run[s].pc = "loop"
    /\ run[s].idx > Len(run[s].active)
    /\ MayKeep(keep, nRuns)
    /\ nKept' = Kept(keep)
    /\ LET r == run[s]
           sr == sess[s]
           Flushed(row) ==
               IF row.id \in DOMAIN sr.objs
               THEN MkRow(row.id, row.project_id, row.standup_date,
                          [c \in Cols |-> IF c \in ChangedCols(sr.objs[row.id])
                                          THEN sr.objs[row.id].cur[c] ELSE row[c]])
               ELSE row
           newId(k) == nextId + k - 1
           inserted == {MkRow(newId(k), sr.new[k].project_id, sr.new[k].standup_date,
                              sr.new[k].vals) : k \in 1..Len(sr.new)}
           entryId(e) == IF e.id # 0 THEN e.id ELSE newId(e.k)
           entryVals(e) == IF e.id # 0 THEN sr.objs[e.id].cur ELSE sr.new[e.k].vals
           read_entries == [i \in 1..Len(r.entries) |->
                              DailyStandupLogRead(entryId(r.entries[i]),
                                                  r.entries[i].project_id, r.date,
                                                  entryVals(r.entries[i]))]
           committed ==
               [valid |-> TRUE,
                objs |-> [id \in DOMAIN sr.objs \cup {newId(k) : k \in 1..Len(sr.new)} |->
                            IF id \in DOMAIN sr.objs
                            THEN [base |-> sr.objs[id].cur, cur |-> sr.objs[id].cur]
                            ELSE [base |-> sr.new[id - nextId + 1].vals,
                                  cur |-> sr.new[id - nextId + 1].vals]],
                new |-> <<>>,
                projTimes |-> sr.projTimes]
       IN  /\ db' = {Flushed(row) : row \in db} \cup inserted
           /\ nextId' = nextId + Len(sr.new)
           /\ sess' = [sess EXCEPT ![s] = AfterCall(committed, keep)]
           /\ out' =
                 [state |-> "returned", cause |-> "", session |-> s,
                  summary |-> DailyCheckSummary(r.date, r.active, read_entries),
                  seq |-> r.seq, synced |-> r.synced, credsMissing |-> r.credsMissing,
                  usable |-> r.usable, activeSet |-> r.activeSet,
                  inserted |-> Cardinality({i \in 1..Len(r.entries) : r.entries[i].id = 0}),
                  done |-> Len(r.entries)]
           /\ run' = [run EXCEPT ![s] = IdleRun]
    /\ UNCHANGED <<projects, graph_client_instance, nRuns, nUpdates,
                   evalSnapshot, evalResult, aggResult,
                   projResult, http, snapInput, snapResult,
                   emailCalls, emailResult, token_state, now, tokenRequests, tokenResult>>

\* The flush or the commit fails in the database: the transaction is rolled
\* back, the pending objects are expunged and the session refuses further
\* work until it is rolled back or closed.
FlushFails(s, keep) ==
    /\ run[s].pc = "loop"
    /\ run[s].idx > Len(run[s].active)
    /\ Len(run[s].entries) > 0
    /\ MayKeep(keep, nRuns)
    /\ nKept' = Kept(keep)
    /\ out' = Raised(s, run[s], "PersistenceError")
    /\ run' = [run EXCEPT ![s] = IdleRun]
    /\ sess' = [sess EXCEPT ![s] = AfterCall([EmptySession EXCEPT !.valid = FALSE], keep)]
    /\ UNCHANGED <<projects, db, nextId, graph_client_instance, nRuns, nUpdates,
                   evalSnapshot, evalResult, aggResult,
                   projResult, http, snapInput, snapResult,
                   emailCalls, emailResult, token_state, now, tokenRequests, tokenResult>>

\* PATCH /projects/{id}: change is_active and standup_time of a project.
\* Only the start of a daily check reads the registry, so a change is of
\* interest only while another call can still start.
UpdateProject(p, active, time) ==
    /\ nUpdates < MaxUpdates
    /\ nRuns < MaxRuns
    /\ projects[p] # [is_active |-> active, standup_time |-> time]
    /\ projects' = [projects EXCEPT ![p] = [is_active |-> active, standup_time |-> time]]
    /\ nUpdates' = nUpdates + 1
    /\ UNCHANGED <<db, nextId, sess, run, out, graph_client_instance, nRuns, nKept,
                   evalSnapshot, evalResult, aggResult,
                   projResult, http, snapInput, snapResult,
                   emailCalls, emailResult, token_state, now, tokenRequests, tokenResult>>

(***************************************************************************)
(* Weekly aggregation (weekly_summary.py).  Percentages are kept in        *)
(* hundredths of a percent, so 40.0 is 4000 and round(x, 2) is a rounding  *)
(* to the nearest integer, ties to even.                                   *)
(***************************************************************************)
NumAggDates == 2

MaxLogs == 3

AggDates == 1..NumAggDates

\* The ratio cut to two decimals instead of rounded.
TruncPct(num, den) == (num * 10000) \div den

\* round(num / den * 100, 2) in hundredths of a percent.
RoundPct(num, den) ==
    LET q == (num * 10000) \div den
        rem == (num * 10000) % den
    IN  IF 2 * rem > den THEN q + 1
        ELSE IF 2 * rem < den THEN q
        ELSE IF q % 2 = 0 THEN q ELSE q + 1

NormalizeStatusStrict(status) == status

\* DailyStandupStatus(log.status), falling back to NO_DATA on ValueError.
NormalizeStatus(status) ==
    IF status \in DailyStandupStatus THEN status ELSE NO_DATA

\* The range without its last day.
LogsInRangeExclusive(p, start_date, end_date) ==
    {r \in db : /\ r.project_id = p
                /\ r.standup_date >= start_date
                /\ r.standup_date < end_date}

LogsInRange(p, start_date, end_date) ==
    {r \in db : /\ r.project_id = p
                /\ r.standup_date >= start_date
                /\ r.standup_date <= end_date}

WeeklyProjectSummary(p, logs, start_date, end_date) ==
    LET total_days == Cardinality(logs)
        count(st) == Cardinality({r \in logs : NormalizeStatus(r.status) = st})
    IN  [project_id |-> p, start_date |-> start_date, end_date |-> end_date,
         total_days |-> total_days,
         happened_count |-> count(HAPPENED),
         missed_count |-> count(MISSED),
         cancelled_count |-> count(CANCELLED),
         no_data_count |-> count(NO_DATA),
         error_count |-> count(ERROR),
         compliance_pct |-> IF total_days > 0
                            THEN RoundPct(count(HAPPENED), total_days) ELSE 0]

\* The keys of logs_by_project: the projects with a joined row in the range.
GroupedProjectsAll(start_date, end_date) == AllProjects

GroupedProjects(start_date, end_date) ==
    SelectSeq(AllProjects, LAMBDA p : LogsInRange(p, start_date, end_date) # {})

WeeklySummaryStrictRange(start_date, end_date) ==
    IF end_date <= start_date
    THEN [error |-> "ValueError", start_date |-> start_date, end_date |-> end_date,
          projects |-> <<>>]
    ELSE LET groups == GroupedProjects(start_date, end_date)
         IN  [error |-> "", start_date |-> start_date, end_date |-> end_date,
              projects |-> [i \in 1..Len(groups) |->
                              WeeklyProjectSummary(groups[i],
                                  LogsInRange(groups[i], start_date, end_date),
                                  start_date, end_date)]]

compute_weekly_summary(start_date, end_date) ==
    IF end_date < start_date
    THEN [error |-> "ValueError", start_date |-> start_date, end_date |-> end_date,
          projects |-> <<>>]
    ELSE LET groups == GroupedProjects(start_date, end_date)
         IN  [error |-> "", start_date |-> start_date, end_date |-> end_date,
              projects |-> [i \in 1..Len(groups) |->
                              WeeklyProjectSummary(groups[i],
                                  LogsInRange(groups[i], start_date, end_date),
                                  start_date, end_date)]]

NoAgg == [error |-> "none", start_date |-> 0, end_date |-> 0, projects |-> <<>>]

ComputeWeekly(start_date, end_date) ==
    /\ aggResult = NoAgg
    /\ projResult = NoProj
    /\ aggResult' = compute_weekly_summary(start_date, end_date)
    /\ UNCHANGED <<projects, db, nextId, sess, run, out, graph_client_instance,
                   nRuns, nUpdates, nKept, evalSnapshot, evalResult,
                   projResult, http, snapInput, snapResult,
                   emailCalls, emailResult, token_state, now, tokenRequests, tokenResult>>

(***************************************************************************)
(* compute_project_summary (weekly_summary.py lines 137-219): the range    *)
(* check, then the lookup of the project, then the same counting as        *)
(* compute_weekly_summary over the logs of that project.                   *)
(***************************************************************************)
\* The ids a caller may pass: those of the registry and one that is unknown.
ProjectIds == 1..(NumProjects + 1)

ProjectSummaryFailed(error, project_id, start_date, end_date) ==
    [error |-> error, project_id |-> project_id,
     start_date |-> start_date, end_date |-> end_date]

ProjectExistsAlways(project_id) == TRUE

\* select(Project).where(Project.id == project_id) finds a row.
ProjectExists(project_id) == project_id \in DOMAIN projects

ProjectSummaryFromGroups(project_id, start_date, end_date) ==
    IF end_date < start_date
    THEN ProjectSummaryFailed("ValueError", project_id, start_date, end_date)
    ELSE IF \/ ~ProjectExists(project_id)
            \/ LogsInRange(project_id, start_date, end_date) = {}
    THEN ProjectSummaryFailed("LookupError", project_id, start_date, end_date)
    ELSE [error |-> "", project_id |-> project_id,
          start_date |-> start_date, end_date |-> end_date,
          summary |-> WeeklyProjectSummary(project_id,
                          LogsInRange(project_id, start_date, end_date),
                          start_date, end_date)]

\* The logs query without its project filter.
ProjectLogsAnyProject(project_id, start_date, end_date) ==
    {r \in db : r.standup_date >= start_date /\ r.standup_date <= end_date}

\* The logs query of lines 161-174, which does not join the projects.
ProjectLogs(project_id, start_date, end_date) ==
    {r \in db : /\ r.project_id = project_id
                /\ r.standup_date >= start_date
                /\ r.standup_date <= end_date}

\* Lines 176-219 repeat the counting of compute_weekly_summary on the logs
\* of the one project.
compute_project_summary(project_id, start_date, end_date) ==
    IF end_date < start_date
    THEN ProjectSummaryFailed("ValueError", project_id, start_date, end_date)
    ELSE IF ~ProjectExists(project_id)
    THEN ProjectSummaryFailed("LookupError", project_id, start_date, end_date)
    ELSE LET logs == ProjectLogs(project_id, start_date, end_date)
             total_days == Cardinality(logs)
             counts == [st \in DailyStandupStatus |->
                          Cardinality({r \in logs : NormalizeStatus(r.status) = st})]
             compliance_pct == IF total_days > 0
                               THEN RoundPct(counts[HAPPENED], total_days) ELSE 0
         IN  [error |-> "", project_id |-> project_id,
              start_date |-> start_date, end_date |-> end_date,
              summary |-> [project_id |-> project_id,
                           start_date |-> start_date, end_date |-> end_date,
                           total_days |-> total_days,
                           happened_count |-> counts[HAPPENED],
                           missed_count |-> counts[MISSED],
                           cancelled_count |-> counts[CANCELLED],
                           no_data_count |-> counts[NO_DATA],
                           error_count |-> counts[ERROR],
                           compliance_pct |-> compliance_pct]]

ComputeProject(project_id, start_date, end_date) ==
    /\ aggResult = NoAgg
    /\ projResult = NoProj
    /\ projResult' = compute_project_summary(project_id, start_date, end_date)
    /\ UNCHANGED <<projects, db, nextId, sess, run, out, graph_client_instance,
                   nRuns, nUpdates, nKept, evalSnapshot, evalResult, aggResult,
                   http, snapInput, snapResult,
                   emailCalls, emailResult, token_state, now, tokenRequests, tokenResult>>

(***************************************************************************)
(* The routes that take a date range.  GET /reports/weekly (reports.py     *)
(* lines 67-93) awaits compute_weekly_summary with no handler around it,   *)
(* so an exception of the service leaves the route and the framework       *)
(* answers 500.  GET /projects/{id}/summary (projects.py lines 368-408)    *)
(* maps LookupError to 404 and ValueError to 400.                          *)
(***************************************************************************)
HttpResponse(route, status, start_date, end_date) ==
    [route |-> route, status |-> status, start_date |-> start_date,
     end_date |-> end_date]

get_weekly_report(start_date, end_date) ==
    LET summary == compute_weekly_summary(start_date, end_date)
    IN  HttpResponse("GET /reports/weekly",
                     IF summary.error = "" THEN 200 ELSE 500,
                     start_date, end_date)

get_project_summary(project_id, from_date, to_date) ==
    LET summary == compute_project_summary(project_id, from_date, to_date)
    IN  HttpResponse("GET /projects/{id}/summary",
                     IF summary.error = "LookupError" THEN 404
                     ELSE IF summary.error = "ValueError" THEN 400
                     ELSE 200,
                     from_date, to_date)

GetWeeklyReport(start_date, end_date) ==
    /\ aggResult = NoAgg
    /\ projResult = NoProj
    /\ aggResult' = compute_weekly_summary(start_date, end_date)
    /\ http' = get_weekly_report(start_date, end_date)
    /\ UNCHANGED <<projects, db, nextId, sess, run, out, graph_client_instance,
                   nRuns, nUpdates, nKept, evalSnapshot, evalResult, projResult,
                   snapInput, snapResult,
                   emailCalls, emailResult, token_state, now, tokenRequests, tokenResult>>

GetProjectSummary(project_id, from_date, to_date) ==
    /\ aggResult = NoAgg
    /\ projResult = NoProj
    /\ projResult' = compute_project_summary(project_id, from_date, to_date)
    /\ http' = get_project_summary(project_id, from_date, to_date)
    /\ UNCHANGED <<projects, db, nextId, sess, run, out, graph_client_instance,
                   nRuns, nUpdates, nKept, evalSnapshot, evalResult, aggResult,
                   snapInput, snapResult,
                   emailCalls, emailResult, token_state, now, tokenRequests, tokenResult>>

(***************************************************************************)
(* Direct calls of StandupEvaluator.evaluate on arbitrary snapshots.        *)
(***************************************************************************)
RawInputs ==
    { None,
      EmptyDict,
      Dict("error" :> Scalar),
      Dict("occurrence" :> ErrorRaw),
      Dict("occurrence" :> EventRaw),
      Dict("occurrence" :> Scalar),
      Dict(("occurrence" :> EventRaw) @@ ("attendance" :> ErrorRaw)),
      Dict("occurrence" :> Dict("detail" :> ErrorRaw)) }

SnapshotInputs ==
    {None} \cup
    { MeetingSnapshot(c, n, m, raw) :
        c \in BOOLEAN, n \in {0, 1, 2, 5}, m \in {0, 30, 31, 100}, raw \in RawInputs }

Evaluate ==
    /\ evalResult = ""
    /\ evalResult' = evaluate(evalSnapshot)
    /\ UNCHANGED <<projects, db, nextId, sess, run, out, graph_client_instance,
                   nRuns, nUpdates, nKept, evalSnapshot, aggResult,
                   projResult, http, snapInput, snapResult,
                   emailCalls, emailResult, token_state, now, tokenRequests, tokenResult>>

(***************************************************************************)
(* POST /internal/run-weekly-report (internal.py lines 112-132) and the    *)
(* email notifier (email_notifier.py lines 58-104).  The route computes    *)
(* the summary of the last seven days and returns it; the notifier is      *)
(* called by no code of the application, only directly.                    *)
(***************************************************************************)
ReportWindowDays == 6

run_weekly_report(today) == compute_weekly_summary(today - ReportWindowDays, today)

RunWeeklyReport(today) ==
    /\ aggResult = NoAgg
    /\ projResult = NoProj
    /\ aggResult' = run_weekly_report(today)
    /\ http' = HttpResponse("POST /internal/run-weekly-report", 200,
                            today - ReportWindowDays, today)
    /\ UNCHANGED <<projects, db, nextId, sess, run, out, graph_client_instance,
                   nRuns, nUpdates, nKept, evalSnapshot, evalResult, projResult,
                   snapInput, snapResult,
                   emailCalls, emailResult, token_state, now, tokenRequests, tokenResult>>

\* The mail settings: whether REPORT_EMAIL_RECIPIENTS names a recipient and
\* whether SMTP_HOST and SMTP_FROM_ADDRESS are set.
MailSettings == [recipients : BOOLEAN, host : BOOLEAN, from_address : BOOLEAN]

\* smtp_ok: the SMTP conversation ends without an exception.
send_weekly_summary_email(cfg, smtp_ok) ==
    IF ~cfg.recipients THEN FALSE
    ELSE IF ~cfg.host \/ ~cfg.from_address THEN FALSE
    ELSE smtp_ok

\* A direct call of the notifier with the summary last computed.
SendWeeklySummaryEmail(cfg, smtp_ok) ==
    /\ aggResult # NoAgg
    /\ aggResult.error = ""
    /\ emailResult = "none"
    /\ emailCalls' = Append(emailCalls, aggResult)
    /\ emailResult' = IF send_weekly_summary_email(cfg, smtp_ok) THEN "sent" ELSE "not sent"
    /\ UNCHANGED <<projects, db, nextId, sess, run, out, graph_client_instance,
                   nRuns, nUpdates, nKept, evalSnapshot, evalResult, aggResult,
                   projResult, http, snapInput, snapResult,
                   token_state, now, tokenRequests, tokenResult>>

(***************************************************************************)
(* GraphClient.get_access_token and _fetch_token (graph_client.py lines    *)
(* 71-124), called one after the other on one client.  The clock counts    *)
(* seconds and advances in ticks; a token is named by the number of the    *)
(* request that obtained it.                                               *)
(***************************************************************************)
MaxTokenCalls == 3

MaxTicks == 3

TickSeconds == 60

safety_margin == 60

\* The answers of the token endpoint: 200 with access_token and expires_in,
\* another status, 200 without the two fields, or no answer at all (an
\* exception of the HTTP transport).
TokenResponses ==
    {[kind |-> "ok", expires_in |-> e] : e \in {60, 180}} \cup
    {[kind |-> "status"], [kind |-> "invalid"], [kind |-> "transport"]}

TokenState(access_token, expires_at) ==
    [kind |-> "token", access_token |-> access_token, expires_at |-> expires_at]

\* _fetch_token: the new token state, or the exception raised.
fetch_token(resp, clock, serial) ==
    IF resp.kind = "transport" THEN [kind |-> "TransportError"]
    ELSE IF resp.kind = "status" THEN [kind |-> "GraphClientError"]
    ELSE IF resp.kind = "invalid" THEN [kind |-> "GraphClientError"]
    ELSE TokenState(serial, clock + resp.expires_in - safety_margin)

\* The cached token is used up to and including its expiry.
CachedTokenValidInclusive(state, clock) ==
    state # NoToken /\ state.expires_at >= clock

\* Line 120: a token is cached and expires later than now.
CachedTokenValid(state, clock) ==
    state # NoToken /\ state.expires_at > clock

GetAccessToken(resp) ==
    /\ tokenResult.call < MaxTokenCalls
    /\ IF CachedTokenValid(token_state, now)
       THEN /\ tokenResult' = [kind |-> "token",
                               access_token |-> token_state.access_token,
                               call |-> tokenResult.call + 1, response |-> "none"]
            /\ UNCHANGED <<token_state, tokenRequests>>
       ELSE LET fetched == fetch_token(resp, now, tokenRequests + 1)
            IN  /\ tokenRequests' = tokenRequests + 1
                /\ IF fetched.kind = "token"
                   THEN /\ token_state' = fetched
                        /\ tokenResult' = [kind |-> "token",
                                           access_token |-> fetched.access_token,
                                           call |-> tokenResult.call + 1,
                                           response |-> resp.kind]
                   ELSE /\ token_state' = token_state
                        /\ tokenResult' = [kind |-> fetched.kind,
                                           call |-> tokenResult.call + 1,
                                           response |-> resp.kind]
    /\ UNCHANGED <<projects, db, nextId, sess, run, out, graph_client_instance,
                   nRuns, nUpdates, nKept, evalSnapshot, evalResult, aggResult,
                   projResult, http, snapInput, snapResult,
                   emailCalls, emailResult, now>>

Tick ==
    /\ now < MaxTicks * TickSeconds
    /\ now' = now + TickSeconds
    /\ UNCHANGED <<projects, db, nextId, sess, run, out, graph_client_instance,
                   nRuns, nUpdates, nKept, evalSnapshot, evalResult, aggResult,
                   projResult, http, snapInput, snapResult,
                   emailCalls, emailResult, token_state, tokenRequests, tokenResult>>

(***************************************************************************)
(* The first daily check of a deployment, on session 1.                    *)
(***************************************************************************)
FirstRun(d, cfg, creds, keep) ==
    /\ nRuns = 0
    /\ StartRun(1, d, cfg, creds, keep)

(***************************************************************************)
(* Direct calls of MeetingNormalizer.build_snapshot on every combination   *)
(* of an occurrence and an attendance summary.                             *)
(***************************************************************************)
OccurrenceInputs ==
    {None} \cup
    { MeetingOccurrence(c, raw) :
        c \in BOOLEAN, raw \in {None, EmptyDict, EventRaw, ErrorRaw} }

AttendanceInputs ==
    {None} \cup
    { AttendanceSummary(n, m, h, raw) :
        n \in {0, 3}, m \in {0, 100}, h \in BOOLEAN,
        raw \in {None, EmptyDict, ReportsRaw, ErrorRaw} }

BuildSnapshot ==
    /\ snapResult = NoSnap
    /\ snapResult' = build_snapshot(snapInput.occurrence, snapInput.attendance)
    /\ UNCHANGED <<projects, db, nextId, sess, run, out, graph_client_instance,
                   nRuns, nUpdates, nKept, evalSnapshot, evalResult, aggResult,
                   projResult, http, snapInput,
                   emailCalls, emailResult, token_state, now, tokenRequests, tokenResult>>

(***************************************************************************)
(* Specifications.                                                         *)
(*   Spec      daily-check runs on a pool of sessions, overlapping or not  *)
(*   SpecEval  the evaluator applied to every snapshot of SnapshotInputs    *)
(*   SpecAgg   the aggregator applied to every stored set of logs          *)
(*   SpecWeek  the aggregator applied to a week of daily logs              *)
(*   SpecSnap  the normalizer applied to every pair of resolver results    *)
(*   SpecRun   one daily check on an empty log table, every provider       *)
(*             answer drawn for every project                              *)
(*   SpecReport   the scheduled weekly report and the email notifier       *)
(*   SpecToken    consecutive get_access_token calls on one Graph client   *)
(*   SpecRerun    daily checks for a date whose rows are already stored    *)
(***************************************************************************)
Init ==
    /\ MainInit
    /\ evalSnapshot = None
    /\ evalResult = ""
    /\ aggResult = NoAgg
    /\ NoOtherCall

Next ==
    \/ \E s \in Sessions, d \in Dates, cfg \in SettingsInputs,
          creds \in BOOLEAN, keep \in BOOLEAN :
         StartRun(s, d, cfg, creds, keep)
    \/ \E s \in Sessions, c \in RunCases, keep \in BOOLEAN :
         Step(s, c[1], c[2], keep)
    \/ \E s \in Sessions, keep \in BOOLEAN : Commit(s, keep)
    \/ \E s \in Sessions, keep \in BOOLEAN : FlushFails(s, keep)
    \/ \E p \in Projects, a \in BOOLEAN, t \in Times : UpdateProject(p, a, t)

Spec == Init /\ [][Next]_vars

InitEval ==
    /\ MainInit
    /\ evalSnapshot \in SnapshotInputs
    /\ evalResult = ""
    /\ aggResult = NoAgg
    /\ NoOtherCall

NextEval == Evaluate

SpecEval == InitEval /\ [][NextEval]_vars

\* The log tables the aggregator is applied to: up to MaxLogs rows, each the
\* log a daily check wrote for some project, date and evaluation.  Several
\* rows may share a project and date (the table has no unique constraint).
\* The aggregator does not read ids, so rows are numbered in one fixed order.
\* The status column is a plain String(32): besides the five values a row
\* written by another tool or an older release may hold any other string.
StatusSeq == <<HAPPENED, MISSED, CANCELLED, NO_DATA, ERROR, "LEGACY">>

SampleRaw == Dict(("occurrence" :> EventRaw) @@ ("attendance" :> ReportsRaw))

SampleSnapshot(status) ==
    CASE status = HAPPENED -> MeetingSnapshot(FALSE, 3, 100, SampleRaw)
      [] status = MISSED -> MeetingSnapshot(FALSE, 0, 0, SampleRaw)
      [] status = CANCELLED -> MeetingSnapshot(TRUE, 0, 0, SampleRaw)
      [] status = ERROR -> MeetingSnapshot(FALSE, 0, 0, Dict("occurrence" :> ErrorRaw))
      [] OTHER -> None

NumLogKinds == NumProjects * NumAggDates * Len(StatusSeq)

KindProject(k) == ((k - 1) \div (NumAggDates * Len(StatusSeq))) + 1

KindDate(k) == (((k - 1) \div Len(StatusSeq)) % NumAggDates) + 1

KindStatus(k) == StatusSeq[((k - 1) % Len(StatusSeq)) + 1]

StoredLog(id, k) ==
    MkRow(id, KindProject(k), KindDate(k),
          IF KindStatus(k) \in DailyStandupStatus
          THEN LogValues(SampleSnapshot(KindStatus(k)), "10:30")
          ELSE [LogValues(None, "10:30") EXCEPT !.status = KindStatus(k)])

\* The tables of at most n rows.  Rows are numbered in the order of their
\* kinds, so that a table is listed once.
LogSetsUpTo(n) ==
    { {StoredLog(i, f[i]) : i \in DOMAIN f}
      : f \in UNION { {g \in [1..m -> 1..NumLogKinds] :
                          \A i \in 1..(m - 1) : g[i] <= g[i + 1]} : m \in 0..n } }

InitAgg ==
    /\ projects = [p \in Projects |-> [is_active |-> (p = 1), standup_time |-> "10:30"]]
    /\ db \in LogSetsUpTo(MaxLogs)
    /\ nextId = MaxLogs + 1
    /\ sess = [s \in Sessions |-> EmptySession]
    /\ run = [s \in Sessions |-> IdleRun]
    /\ out = NoOut
    /\ graph_client_instance = FALSE
    /\ nRuns = 0
    /\ nUpdates = 0
    /\ nKept = 0
    /\ evalSnapshot = None
    /\ evalResult = ""
    /\ aggResult = NoAgg
    /\ NoOtherCall

NextAgg ==
    \/ \E s \in AggDates, e \in AggDates : ComputeWeekly(s, e)
    \/ \E p \in ProjectIds, s \in AggDates, e \in AggDates : ComputeProject(p, s, e)
    \/ \E s \in AggDates, e \in AggDates : GetWeeklyReport(s, e)
    \/ \E p \in ProjectIds, s \in AggDates, e \in AggDates : GetProjectSummary(p, s, e)

SpecAgg == InitAgg /\ [][NextAgg]_vars

(***************************************************************************)
(* A reporting week: the first project has one log on each day of the week *)
(* (the daily check writes one log per project and day) of a week without  *)
(* cancelled meetings; the second project has none.                        *)
(***************************************************************************)
NumWeekDays == 5

WeekStatusValues == {HAPPENED, MISSED, NO_DATA, ERROR}

WeekDays == 1..NumWeekDays

WeekLog(day, status) ==
    MkRow(day, 1, day, LogValues(SampleSnapshot(status), "10:30"))

WeekLogSets ==
    { {WeekLog(d, f[d]) : d \in WeekDays} : f \in [WeekDays -> WeekStatusValues] }

InitWeek ==
    /\ projects = [p \in Projects |-> [is_active |-> TRUE, standup_time |-> "10:30"]]
    /\ db \in WeekLogSets
    /\ nextId = NumWeekDays + 1
    /\ sess = [s \in Sessions |-> EmptySession]
    /\ run = [s \in Sessions |-> IdleRun]
    /\ out = NoOut
    /\ graph_client_instance = FALSE
    /\ nRuns = 0
    /\ nUpdates = 0
    /\ nKept = 0
    /\ evalSnapshot = None
    /\ evalResult = ""
    /\ aggResult = NoAgg
    /\ NoOtherCall

NextWeek ==
    \/ \E s \in WeekDays, e \in WeekDays : ComputeWeekly(s, e)
    \/ \E p \in ProjectIds, s \in WeekDays, e \in WeekDays : ComputeProject(p, s, e)

SpecWeek == InitWeek /\ [][NextWeek]_vars

InitSnap ==
    /\ MainInit
    /\ evalSnapshot = None
    /\ evalResult = ""
    /\ aggResult = NoAgg
    /\ projResult = NoProj
    /\ http = NoHttp
    /\ snapInput \in [occurrence : OccurrenceInputs, attendance : AttendanceInputs]
    /\ snapResult = NoSnap
    /\ NoClientCall

NextSnap == BuildSnapshot

SpecSnap == InitSnap /\ [][NextSnap]_vars

InitRun ==
    /\ MainInit
    /\ evalSnapshot = None
    /\ evalResult = ""
    /\ aggResult = NoAgg
    /\ NoOtherCall

NextRun ==
    \/ \E d \in Dates, cfg \in SettingsInputs, creds \in BOOLEAN, keep \in BOOLEAN :
         FirstRun(d, cfg, creds, keep)
    \/ \E c \in FetchCases, keep \in BOOLEAN : Step(1, c[1], c[2], keep)
    \/ \E keep \in BOOLEAN : Commit(1, keep)
    \/ \E keep \in BOOLEAN : FlushFails(1, keep)

SpecRun == InitRun /\ [][NextRun]_vars

NextReport ==
    \/ \E today \in AggDates : RunWeeklyReport(today)
    \/ \E cfg \in MailSettings, smtp_ok \in BOOLEAN : SendWeeklySummaryEmail(cfg, smtp_ok)

SpecReport == InitAgg /\ [][NextReport]_vars

NextToken ==
    \/ \E resp \in TokenResponses : GetAccessToken(resp)
    \/ Tick

SpecToken == InitRun /\ [][NextToken]_vars

(***************************************************************************)
(* Daily checks for a date an earlier check has already handled.  The      *)
(* earlier check found every meeting held with three attendees for two     *)
(* minutes and stored a MISSED row per project; the first project holds    *)
(* either that one row or, after two overlapping first checks (the table   *)
(* has no unique constraint), two of them.                                 *)
(***************************************************************************)
StoredByEarlierRun(id, p, d) ==
    MkRow(id, p, d,
          LogValues(build_snapshot(
                        resolve_meeting_occurrence(OccFetch("ok", EventFound(FALSE))),
                        resolve_attendance(AttFetch("ok", Report(3, 20)))),
                    "10:30"))

RerunTables ==
    LET once == {StoredByEarlierRun(p, p, 1) : p \in Projects}
    IN  {once, once \cup {StoredByEarlierRun(NumProjects + 1, 1, 1)}}

\* The meeting is found; the attendance reports show a held meeting, no
\* report at all, or cannot be read.
RerunCases ==
    { <<OccFetch("ok", EventFound(FALSE)), AttFetch("ok", Report(3, 100))>>,
      <<OccFetch("ok", EventFound(FALSE)), AttFetch("ok", None)>>,
      <<OccFetch("ok", EventFound(FALSE)), AttFetch("GraphClientError", None)>> }

InitRerun ==
    /\ projects = [p \in Projects |-> [is_active |-> TRUE, standup_time |-> "10:30"]]
    /\ db \in RerunTables
    /\ nextId = Cardinality(db) + 1
    /\ sess = [s \in Sessions |-> EmptySession]
    /\ run = [s \in Sessions |-> IdleRun]
    /\ out = NoOut
    /\ graph_client_instance = FALSE
    /\ nRuns = 0
    /\ nUpdates = 0
    /\ nKept = 0
    /\ evalSnapshot = None
    /\ evalResult = ""
    /\ aggResult = NoAgg
    /\ NoOtherCall

NextRerun ==
    \/ \E s \in Sessions, d \in Dates, cfg \in SettingsInputs,
          creds \in BOOLEAN, keep \in BOOLEAN :
         StartRun(s, d, cfg, creds, keep)
    \/ \E s \in Sessions, c \in RerunCases, keep \in BOOLEAN :
         Step(s, c[1], c[2], keep)
    \/ \E s \in Sessions, keep \in BOOLEAN : Commit(s, keep)

SpecRerun == InitRerun /\ [][NextRerun]_vars

(***************************************************************************)
(* Properties.                                                             *)
(***************************************************************************)
\* The committed logs of a set of rows for one project and date.
RowsFor(rows, p, d) == {r \in rows : r.project_id = p /\ r.standup_date = d}

RowIds(rows) == {r.id : r \in rows}

\* The call of session s returns its summary in this step.
Returns(s) ==
    /\ run[s].pc = "loop"
    /\ run'[s].pc = "idle"
    /\ out'.state = "returned"
    /\ out'.session = s

\* The call of session s ran alone, on a session that agreed with the database.
Undisturbed(s) == run[s].seq /\ run[s].synced

\* C1: a daily check that runs in sequence after another one for the same
\* date, so that every active project already has its one log row of the
\* date, creates no row: it updates that row in place (same id), the row holds
\* the status this run evaluated, and there is still exactly one row per
\* active project and date.
C1_SecondRunUpdatesInPlace ==
    [][\A s \in Sessions :
         ( /\ Returns(s)
           /\ Undisturbed(s)
           /\ \A p \in run[s].activeSet :
                 Cardinality(RowsFor(db, p, run[s].date)) = 1 )
         => /\ nextId' = nextId
            /\ RowIds(db') = RowIds(db)
            /\ \A p \in run[s].activeSet :
                  /\ Cardinality(RowsFor(db', p, run[s].date)) = 1
                  /\ RowIds(RowsFor(db', p, run[s].date)) =
                        RowIds(RowsFor(db, p, run[s].date))
                  /\ \A r \in RowsFor(db', p, run[s].date) :
                        \E i \in 1..Len(run[s].entries) :
                           /\ run[s].entries[i].project_id = p
                           /\ r.status = evaluate(run[s].entries[i].snapshot)
                           /\ out'.summary.entries[i].id = r.id]_vars

\* A second run in sequence has returned: every entry is an update.
C1_Witness ==
    /\ out.state = "returned"
    /\ out.seq /\ out.synced
    /\ out.done >= 1
    /\ out.inserted = 0

\* C2: at most one log row per (project_id, standup_date).
C2_OneRowPerProjectAndDate ==
    \A r1 \in db, r2 \in db :
       (r1.project_id = r2.project_id /\ r1.standup_date = r2.standup_date)
          => r1.id = r2.id

\* C3: a run never inserts a row for a project and date that already has a
\* committed row (the loser of a race updates the winner's row instead).
C3_LoserUpdates ==
    [][\A r2 \in db' :
         (r2.id \notin RowIds(db)) => RowsFor(db, r2.project_id, r2.standup_date) = {}]_vars

\* C4: evaluate returns the status of the first matching rule: None ->
\* NO_DATA; error marker -> ERROR; cancelled -> CANCELLED; fewer than 2
\* non-organizers -> MISSED; duration of at most 3 minutes -> MISSED;
\* otherwise HAPPENED.
C4_RuleOrder ==
    evalResult # "" =>
       /\ evalSnapshot = None => evalResult = NO_DATA
       /\ evalSnapshot # None =>
            LET e == error_present(evalSnapshot)
                c == evalSnapshot.cancelled
                n == evalSnapshot.non_organizer_count
                m == evalSnapshot.duration_minutes
            IN  /\ e => evalResult = ERROR
                /\ (~e /\ c) => evalResult = CANCELLED
                /\ (~e /\ ~c /\ n < 2) => evalResult = MISSED
                /\ (~e /\ ~c /\ n >= 2 /\ m <= 30) => evalResult = MISSED
                /\ (~e /\ ~c /\ n >= 2 /\ m > 30) => evalResult = HAPPENED

\* An error marker together with cancelled has been evaluated to ERROR.
C4_Witness ==
    /\ evalResult = ERROR
    /\ evalSnapshot # None
    /\ evalSnapshot.cancelled
    /\ evalSnapshot.non_organizer_count = 5

\* C5: a call whose settings miss a credential does not fail on that.
C5_MissingCredentialDoesNotFail ==
    (out.state = "raised" /\ out.credsMissing) => out.cause # "AttributeError"

\* C6: a provider failure for one project never ends the call.
C6_ProviderFailureContained ==
    out.state = "raised" => out.cause # "TransportError"

\* C7: every row a step inserts or changes is the row of a project that the
\* committing run evaluated; nothing a failed run staged is committed.
C7_OnlyOwnChangesCommitted ==
    [][\A r2 \in db' :
         (r2 \notin db) =>
            \E s \in Sessions :
               /\ Returns(s)
               /\ r2.standup_date = run[s].date
               /\ \E i \in 1..Len(run[s].entries) :
                     run[s].entries[i].project_id = r2.project_id]_vars

C9_SummaryCounts ==
    out.state = "returned" =>
       /\ out.summary.total_projects_evaluated = Cardinality(out.activeSet)
       /\ Len(out.summary.entries) = Cardinality(out.activeSet)
       /\ \A p \in out.activeSet :
             Cardinality({i \in 1..Len(out.summary.entries) :
                             out.summary.entries[i].project_id = p}) = 1
       /\ out.summary.logs_created = Len(out.summary.entries)

\* A summary with an updated log among its entries, one project inactive.
C9_Witness ==
    /\ out.state = "returned"
    /\ out.inserted < out.done
    /\ out.summary.logs_created = out.done
    /\ out.activeSet # Projects

\* C10: no project summary has total_days = 0; a project with no log in the
\* range is omitted, and without any log in the range the list is empty.
C10_NoEmptyProjectSummary ==
    aggResult.error = "" =>
       LET inRange == {r \in db : /\ r.standup_date >= aggResult.start_date
                                  /\ r.standup_date <= aggResult.end_date}
       IN  /\ \A i \in 1..Len(aggResult.projects) : aggResult.projects[i].total_days > 0
           /\ \A p \in Projects :
                 (\A r \in inRange : r.project_id # p) =>
                    \A i \in 1..Len(aggResult.projects) :
                       aggResult.projects[i].project_id # p
           /\ inRange = {} => aggResult.projects = <<>>

\* A summary that omits a project whose only logs lie outside the range.
C10_Witness ==
    /\ aggResult.error = ""
    /\ Len(aggResult.projects) = 1
    /\ \E r \in db : /\ r.standup_date > aggResult.end_date
                     /\ \A i \in 1..Len(aggResult.projects) :
                           aggResult.projects[i].project_id # r.project_id

\* The committed logs of project p with a date in [s, e].
RowsInRange(p, s, e) ==
    {r \in db : r.project_id = p /\ r.standup_date >= s /\ r.standup_date <= e}

\* C11: for an existing project without logs in a valid range,
\* compute_project_summary returns total_days 0, every count 0 and compliance
\* 0, and never the not-found error.
C11_ExistingProjectWithoutLogs ==
    ( /\ projResult.error # "none"
      /\ projResult.project_id \in Projects
      /\ projResult.start_date <= projResult.end_date
      /\ RowsInRange(projResult.project_id, projResult.start_date,
                     projResult.end_date) = {} )
    => /\ projResult.error = ""
       /\ projResult.summary.total_days = 0
       /\ projResult.summary.happened_count = 0
       /\ projResult.summary.missed_count = 0
       /\ projResult.summary.cancelled_count = 0
       /\ projResult.summary.no_data_count = 0
       /\ projResult.summary.error_count = 0
       /\ projResult.summary.compliance_pct = 0

\* An all-zero summary of a project whose logs all lie outside the range.
C11_Witness ==
    /\ projResult.error = ""
    /\ projResult.summary.total_days = 0
    /\ \E r \in db : r.project_id = projResult.project_id

\* C12: both aggregation functions fail with the range error exactly when
\* end_date < start_date; a range of one day is accepted and covers the logs
\* of that day.
C12_InvalidRangeExactly ==
    /\ aggResult.error # "none" =>
          /\ (aggResult.error = "ValueError") <=>
                (aggResult.end_date < aggResult.start_date)
          /\ (aggResult.error = "" /\ aggResult.start_date = aggResult.end_date) =>
                /\ \A i \in 1..Len(aggResult.projects) :
                      aggResult.projects[i].total_days =
                         Cardinality({r \in db :
                            /\ r.project_id = aggResult.projects[i].project_id
                            /\ r.standup_date = aggResult.start_date})
                /\ \A r \in db :
                      r.standup_date = aggResult.start_date =>
                         \E i \in 1..Len(aggResult.projects) :
                            aggResult.projects[i].project_id = r.project_id
    /\ projResult.error # "none" =>
          /\ (projResult.error = "ValueError") <=>
                (projResult.end_date < projResult.start_date)
          /\ (projResult.error = "" /\ projResult.start_date = projResult.end_date) =>
                projResult.summary.total_days =
                   Cardinality({r \in db : /\ r.project_id = projResult.project_id
                                           /\ r.standup_date = projResult.start_date})

\* A weekly summary over a single day that has a log.
C12_Witness ==
    /\ aggResult.error = ""
    /\ aggResult.start_date = aggResult.end_date
    /\ Len(aggResult.projects) >= 1

\* C13: on every route that takes a range, an invalid range is answered with
\* a client error (4xx).
C13_InvalidRangeIsClientError ==
    (http.route # "none" /\ http.end_date < http.start_date)
       => (http.status >= 400 /\ http.status <= 499)

\* C14: for a valid range compute_project_summary fails with not-found
\* exactly when the id is not in the registry; for an invalid range it fails
\* with the range error whether or not the project exists.
C14_NotFoundExactly ==
    projResult.error # "none" =>
       /\ (projResult.end_date < projResult.start_date)
             => projResult.error = "ValueError"
       /\ (projResult.start_date <= projResult.end_date)
             => ((projResult.error = "LookupError") <=>
                    (projResult.project_id \notin Projects))

\* An invalid range for an unknown project has been answered.
C14_Witness ==
    /\ projResult.error = "ValueError"
    /\ projResult.project_id \notin Projects

\* The five counts of a summary add up to total_days, and no_data_count is
\* the number of logs in range whose status is NO_DATA or no enum value.
CountsAddUp(sm) ==
    /\ sm.happened_count + sm.missed_count + sm.cancelled_count
          + sm.no_data_count + sm.error_count = sm.total_days
    /\ sm.total_days =
          Cardinality(RowsInRange(sm.project_id, sm.start_date, sm.end_date))
    /\ sm.no_data_count =
          Cardinality({r \in RowsInRange(sm.project_id, sm.start_date, sm.end_date) :
                          r.status \notin {HAPPENED, MISSED, CANCELLED, ERROR}})

\* C15: in every project summary the five counts add up to total_days; a
\* log with a status outside the five values counts as NO_DATA.
C15_CountsAddUp ==
    /\ aggResult.error = "" =>
          \A i \in 1..Len(aggResult.projects) : CountsAddUp(aggResult.projects[i])
    /\ projResult.error = "" => CountsAddUp(projResult.summary)

\* A summary that counts a log with a status outside the enum.
C15_Witness ==
    /\ aggResult.error = ""
    /\ \E i \in 1..Len(aggResult.projects) :
          /\ aggResult.projects[i].no_data_count = 1
          /\ \E r \in RowsInRange(aggResult.projects[i].project_id,
                                  aggResult.start_date, aggResult.end_date) :
                r.status = "LEGACY"
          /\ \A r \in RowsInRange(aggResult.projects[i].project_id,
                                  aggResult.start_date, aggResult.end_date) :
                r.status # NO_DATA


\* compliance_pct of a summary is exactly happened_count / total_days * 100
\* (in hundredths of a percent), and 0 without logs.
ExactCompliance(sm) ==
    IF sm.total_days = 0 THEN sm.compliance_pct = 0
    ELSE sm.compliance_pct * sm.total_days = sm.happened_count * 10000

\* C16 as stated: compliance_pct equals happened_count / total_days * 100.
C16_ExactCompliance ==
    /\ aggResult.error = "" =>
          \A i \in 1..Len(aggResult.projects) : ExactCompliance(aggResult.projects[i])
    /\ projResult.error = "" => ExactCompliance(projResult.summary)

\* The statuses of the logs of project p on the days s..e, in date order.
WeekStatuses(p, s, e) ==
    [i \in 1..(e - s + 1) |->
        (CHOOSE r \in db : r.project_id = p /\ r.standup_date = s + i - 1).status]

\* compliance_pct is the hundredth of a percent nearest to
\* happened_count / total_days * 100 (0 without logs), lies in 0..100, is 100
\* when there are logs and all are HAPPENED, and the five-day scenario gives
\* total_days 5, happened 2 and 40.0.
RoundedCompliance(sm) ==
    /\ sm.total_days = Cardinality(RowsInRange(sm.project_id, sm.start_date, sm.end_date))
    /\ sm.happened_count =
          Cardinality({r \in RowsInRange(sm.project_id, sm.start_date, sm.end_date) :
                          r.status = HAPPENED})
    /\ IF sm.total_days = 0 THEN sm.compliance_pct = 0
       ELSE LET diff == sm.compliance_pct * sm.total_days - sm.happened_count * 10000
            IN  2 * diff <= sm.total_days /\ 2 * (0 - diff) <= sm.total_days
    /\ sm.compliance_pct >= 0 /\ sm.compliance_pct <= 10000
    /\ (sm.total_days > 0 /\ sm.happened_count = sm.total_days) => sm.compliance_pct = 10000
    /\ ( /\ sm.project_id = 1 /\ sm.start_date = 1 /\ sm.end_date = 5
         /\ NumWeekDays >= 5
         /\ WeekStatuses(1, 1, 5) = <<HAPPENED, MISSED, HAPPENED, ERROR, NO_DATA>> )
       => /\ sm.total_days = 5
          /\ sm.happened_count = 2
          /\ sm.compliance_pct = 4000

\* C16: compliance_pct equals happened_count / total_days * 100 rounded to
\* two decimals (0 when total_days = 0), lies between 0 and 100, is 100 when
\* every one of at least one log in range is HAPPENED, and is 40.0 with
\* total_days 5 and happened 2 for [HAPPENED, MISSED, HAPPENED, ERROR, NO_DATA].
C16_RoundedCompliance ==
    /\ aggResult.error = "" =>
          \A i \in 1..Len(aggResult.projects) : RoundedCompliance(aggResult.projects[i])
    /\ projResult.error = "" => RoundedCompliance(projResult.summary)

\* The weekly summary of the five-day scenario.
C16_Witness ==
    /\ aggResult.error = ""
    /\ aggResult.start_date = 1
    /\ aggResult.end_date = 5
    /\ WeekStatuses(1, 1, 5) = <<HAPPENED, MISSED, HAPPENED, ERROR, NO_DATA>>
    /\ Len(aggResult.projects) = 1
    /\ aggResult.projects[1].compliance_pct = 4000


\* build_snapshot has returned for the inputs held in snapInput.
Normalized == snapResult # NoSnap

OccurrenceRawPresent ==
    snapInput.occurrence # None /\ snapInput.occurrence.raw # None

AttendanceRawPresent ==
    /\ snapInput.attendance # None
    /\ snapInput.attendance.raw # None
    /\ (snapInput.occurrence # None \/ snapInput.attendance.has_data)

\* C17: the raw of the snapshot has key "occurrence" iff the occurrence is
\* present with a non-null raw, key "attendance" iff the attendance raw is
\* non-null and (the occurrence is present or the attendance has data), each
\* holding the payload it names, and is null when neither key applies.
C17_RawKeys ==
    Normalized =>
       IF ~OccurrenceRawPresent /\ ~AttendanceRawPresent
       THEN snapResult.raw = None
       ELSE /\ IsDict(snapResult.raw)
            /\ DOMAIN snapResult.raw.d \subseteq {"occurrence", "attendance"}
            /\ ("occurrence" \in DOMAIN snapResult.raw.d) <=> OccurrenceRawPresent
            /\ ("attendance" \in DOMAIN snapResult.raw.d) <=> AttendanceRawPresent
            /\ OccurrenceRawPresent =>
                  snapResult.raw.d["occurrence"] = snapInput.occurrence.raw
            /\ AttendanceRawPresent =>
                  snapResult.raw.d["attendance"] = snapInput.attendance.raw

\* The attendance payload kept for an occurrence whose attendance has no
\* data.
C17_Witness ==
    /\ Normalized
    /\ snapInput.occurrence # None
    /\ snapInput.occurrence.raw = None
    /\ snapInput.attendance # None
    /\ ~snapInput.attendance.has_data
    /\ IsDict(snapResult.raw)
    /\ DOMAIN snapResult.raw.d = {"attendance"}

\* C18: build_snapshot returns a snapshot for every input; cancelled is the
\* occurrence's is_cancelled when an occurrence is present and false
\* otherwise; the count and the duration are the attendance's only when it
\* is present with has_data, and 0 and 0.0 otherwise.
C18_TotalAndDefaults ==
    Normalized =>
       /\ snapResult.kind = "snapshot"
       /\ snapResult.cancelled =
             (snapInput.occurrence # None /\ snapInput.occurrence.is_cancelled)
       /\ IF snapInput.attendance # None /\ snapInput.attendance.has_data
          THEN /\ snapResult.non_organizer_count =
                     snapInput.attendance.non_organizer_count
               /\ snapResult.duration_minutes = snapInput.attendance.duration_minutes
          ELSE /\ snapResult.non_organizer_count = 0
               /\ snapResult.duration_minutes = 0

\* An attendance without data but with non-zero values gives 0 and 0.0.
C18_Witness ==
    /\ Normalized
    /\ snapInput.attendance # None
    /\ ~snapInput.attendance.has_data
    /\ snapInput.attendance.non_organizer_count = 3
    /\ snapInput.attendance.duration_minutes = 100
    /\ snapResult.non_organizer_count = 0
    /\ snapResult.duration_minutes = 0


\* A resolver result whose raw payload carries an "error" marker.
HasErrorMarker(result) == IsDict(result.raw) /\ "error" \in DOMAIN result.raw.d

\* C19: in a run with the resolvers built, when the occurrence resolver or
\* the attendance resolver returns a result whose raw carries an "error"
\* marker, the project's one log of the date has status ERROR whatever the
\* cancelled flag and the attendance values, and its raw_metadata holds the
\* error payload.
C19_ErrorMarkerGivesError ==
    [][\A s \in Sessions :
         Returns(s) =>
            \A i \in 1..Len(run[s].entries) :
               LET e == run[s].entries[i]
               IN  e.fetched # None =>
                     LET occ == resolve_meeting_occurrence(e.fetched.occurrence)
                         att == resolve_attendance(e.fetched.attendance)
                     IN  (HasErrorMarker(occ) \/ HasErrorMarker(att)) =>
                           /\ Cardinality(RowsFor(db', e.project_id, run[s].date)) = 1
                           /\ \A r \in RowsFor(db', e.project_id, run[s].date) :
                                 /\ r.status = ERROR
                                 /\ r.raw_metadata # None
                                 /\ HasErrorMarker(occ) =>
                                       /\ "occurrence" \in DOMAIN r.raw_metadata.text.d
                                       /\ r.raw_metadata.text.d["occurrence"] = occ.raw
                                 /\ HasErrorMarker(att) =>
                                       /\ "attendance" \in DOMAIN r.raw_metadata.text.d
                                       /\ r.raw_metadata.text.d["attendance"] = att.raw]_vars

\* A committed ERROR log that carries the error payload of the occurrence
\* next to the values of a well-attended meeting.
C19_Witness ==
    /\ out.state = "returned"
    /\ \E r \in db :
          /\ r.status = ERROR
          /\ r.attendance_count = 3
          /\ r.duration_minutes = 100
          /\ r.raw_metadata # None
          /\ "occurrence" \in DOMAIN r.raw_metadata.text.d
          /\ r.raw_metadata.text.d["occurrence"] = ErrorRaw

\* C20: when Graph fails while the occurrence or the attendance of a project
\* is resolved, the project's log of the date has status NO_DATA,
\* attendance_count 0, duration_minutes 0 and no raw metadata.
C20_GraphFailureGivesNoData ==
    [][\A s \in Sessions :
         Returns(s) =>
            \A i \in 1..Len(run[s].entries) :
               LET e == run[s].entries[i]
               IN  ( /\ e.fetched # None
                     /\ \/ e.fetched.occurrence.outcome = "GraphClientError"
                        \/ e.fetched.attendance.outcome = "GraphClientError" )
                   => \E r \in RowsFor(db', e.project_id, run[s].date) :
                         /\ r.status = NO_DATA
                         /\ r.attendance_count = 0
                         /\ r.duration_minutes = 0
                         /\ r.raw_metadata = None]_vars


\* C21: the internal weekly-report operation computes the summary of
\* [today - 6 days, today], hands that summary to send_weekly_summary_email
\* and returns it whether or not the email was sent.
C21_ReportIsEmailed ==
    [][(http.route = "none" /\ http'.route = "POST /internal/run-weekly-report") =>
          /\ http'.status = 200
          /\ http'.start_date = http'.end_date - 6
          /\ aggResult' = compute_weekly_summary(http'.start_date, http'.end_date)
          /\ emailCalls' = Append(emailCalls, aggResult')]_vars


\* This step is a call of get_access_token.
TokenCall == tokenResult'.call = tokenResult.call + 1

ErrorAtDepthOne(raw) ==
    /\ IsDict(raw)
    /\ \/ "error" \in DOMAIN raw.d
       \/ \E k \in DOMAIN raw.d : IsDict(raw.d[k]) /\ "error" \in DOMAIN raw.d[k].d

\* C23: a snapshot evaluates to ERROR iff raw has an "error" key at the top
\* level or in a direct value that is a mapping; an "error" key two levels
\* down, a value that is no mapping, and a null or empty raw never give ERROR.
C23_ErrorOneLevelDeep ==
    (evalResult # "" /\ evalSnapshot # None) =>
       /\ (evalResult = ERROR) <=> ErrorAtDepthOne(evalSnapshot.raw)
       /\ evalSnapshot.raw \in {None, EmptyDict} => evalResult # ERROR
       /\ evalSnapshot.raw = Dict("occurrence" :> Scalar) => evalResult # ERROR
       /\ evalSnapshot.raw = Dict("occurrence" :> Dict("detail" :> ErrorRaw))
             => evalResult # ERROR

\* A snapshot whose only "error" key lies two levels down has been evaluated
\* by the attendance rules.
C23_Witness ==
    /\ evalResult = HAPPENED
    /\ evalSnapshot # None
    /\ evalSnapshot.raw = Dict("occurrence" :> Dict("detail" :> ErrorRaw))


\* C24: when the calendar is read successfully and holds no occurrence of
\* the project's meeting on the date, the log written for the project has
\* status NO_DATA.
C24_NoOccurrenceGivesNoData ==
    [][\A s \in Sessions :
         Returns(s) =>
            \A i \in 1..Len(run[s].entries) :
               LET e == run[s].entries[i]
               IN  (e.fetched # None /\ e.fetched.occurrence = OccFetch("ok", None))
                   => \A r \in RowsFor(db', e.project_id, run[s].date) :
                         r.status = NO_DATA]_vars


\* C25: in compute_weekly_summary a project's total_days is the number of
\* its logs with start_date <= standup_date <= end_date, both ends included;
\* logs outside the range and logs of other projects are not counted, and
\* the logs of an inactive project are counted like any other.
C25_TotalDaysIsLogsInRange ==
    aggResult.error = "" =>
       /\ \A i \in 1..Len(aggResult.projects) :
             LET sm == aggResult.projects[i]
             IN  /\ sm.project_id \in Projects
                 /\ sm.total_days =
                       Cardinality({r \in db : /\ r.project_id = sm.project_id
                                               /\ aggResult.start_date <= r.standup_date
                                               /\ r.standup_date <= aggResult.end_date})
       /\ \A p \in Projects :
             Cardinality({i \in 1..Len(aggResult.projects) :
                             aggResult.projects[i].project_id = p})
                = IF RowsInRange(p, aggResult.start_date, aggResult.end_date) = {}
                  THEN 0 ELSE 1

\* The summary of an inactive project counts its log of the first day and
\* its log of the last day of the range, and not the log of another project.
C25_Witness ==
    /\ aggResult.error = ""
    /\ aggResult.start_date < aggResult.end_date
    /\ \E i \in 1..Len(aggResult.projects) :
          LET sm == aggResult.projects[i]
          IN  /\ ~projects[sm.project_id].is_active
              /\ sm.total_days = 2
              /\ \E r \in db : r.project_id = sm.project_id
                               /\ r.standup_date = aggResult.start_date
              /\ \E r \in db : r.project_id = sm.project_id
                               /\ r.standup_date = aggResult.end_date
              /\ \E r \in db : r.project_id # sm.project_id


\* The entries of a weekly summary for project p.
WeeklyEntries(summary, p) ==
    {summary.projects[i] : i \in {j \in 1..Len(summary.projects) :
                                     summary.projects[j].project_id = p}}

\* C26: for every stored set of logs, valid range and project with a log in
\* the range, the project's entry of compute_weekly_summary equals the
\* result of compute_project_summary for that project and range.
C26_WeeklyEntryIsProjectSummary ==
    /\ aggResult.error = "" =>
          \A i \in 1..Len(aggResult.projects) :
             LET single == compute_project_summary(aggResult.projects[i].project_id,
                                                   aggResult.start_date,
                                                   aggResult.end_date)
             IN  single.error = "" /\ single.summary = aggResult.projects[i]
    /\ ( /\ projResult.error = ""
         /\ RowsInRange(projResult.project_id, projResult.start_date,
                        projResult.end_date) # {} )
       => WeeklyEntries(compute_weekly_summary(projResult.start_date,
                                               projResult.end_date),
                        projResult.project_id) = {projResult.summary}

\* A project summary over two days while the other project has logs in the
\* range as well.
C26_Witness ==
    /\ projResult.error = ""
    /\ projResult.summary.total_days = 2
    /\ projResult.start_date < projResult.end_date
    /\ \E r \in db : /\ r.project_id # projResult.project_id
                     /\ r.standup_date >= projResult.start_date
                     /\ r.standup_date <= projResult.end_date


\* C27: a run for date d creates or changes only rows of date d whose
\* project was active when the run read the projects; every other row is
\* left as it is, and no row is ever deleted.
C27_OnlyRowsOfDateAndActiveProjects ==
    [][/\ \A r \in db : \E r2 \in db' : r2.id = r.id
       /\ Cardinality(db') >= Cardinality(db)
       /\ \A r2 \in db' :
             (r2 \notin db) =>
                \E s \in Sessions :
                   /\ Returns(s)
                   /\ r2.standup_date = run[s].date
                   /\ r2.project_id \in run[s].activeSet]_vars



\* The four value columns a daily check computes for a row agree with the
\* evaluator's rules.
ConsistentRow(r) ==
    /\ r.status \in DailyStandupStatus
    /\ r.status = HAPPENED =>
          r.attendance_count >= MinNonOrganizers
          /\ r.duration_minutes > MaxShortDurationMinutes
    /\ r.status = NO_DATA =>
          r.attendance_count = 0 /\ r.duration_minutes = 0 /\ r.raw_metadata = None
    /\ r.status = ERROR => r.raw_metadata # None

\* C28: every row a returning daily check writes (inserts or changes) is
\* consistent: its status is one of the five values; HAPPENED comes with at
\* least two non-organizer attendees and more than three minutes; NO_DATA
\* comes with count 0, duration 0 and no raw metadata; ERROR comes with raw
\* metadata.
C28_WrittenRowsConsistent ==
    [][\A s \in Sessions :
          Returns(s) => \A r2 \in db' : (r2 \notin db) => ConsistentRow(r2)]_vars


\* The value columns of a row, the schedule time apart.
Evaluated(vals) ==
    [status |-> vals.status, attendance_count |-> vals.attendance_count,
     duration_minutes |-> vals.duration_minutes, raw_metadata |-> vals.raw_metadata]

\* C29: when daily checks for a date overlap on a row that already exists,
\* a returning check leaves every row it changes with the status, attendance
\* count, duration and raw metadata of its own evaluation of that project:
\* no stored row combines the status of one run with the metrics of another.
C29_RowComesFromOneRun ==
    [][\A s \in Sessions :
          Returns(s) =>
             \A i \in 1..Len(run[s].entries) :
                LET e == run[s].entries[i]
                IN  e.id # 0 =>
                       \A r2 \in db' :
                          (r2.id = e.id /\ r2 \notin db) =>
                             Evaluated(r2) =
                                Evaluated(LogValues(e.snapshot, r2.scheduled_time))]_vars

\* C30: whatever rows earlier daily checks stored for a date, a later check
\* for that date is not failed by the lookup of the existing row.
C30_LookupNeverFailsRun ==
    out.state = "raised" => out.cause # "MultipleResultsFound"

====
